---- MODULE Spec2Model ----
(***************************************************************************)
(* Replay animation engine of the league results site: the top-3 race      *)
(* replay (setupRaceAnimation / animate) and the season points progression *)
(* (createPointsProgressionGraph / animateDriverAvatars).                   *)
(*                                                                         *)
(* Numbers.  The code computes in IEEE doubles; the model computes the     *)
(* same expressions exactly, over integers:                                *)
(*   - times of day and elapsed times are whole milliseconds (Date.now()); *)
(*   - sector times are whole multiples of 1/UnitsPerSec second;           *)
(*   - the race progress p is the numerator of p over ProgDen;             *)
(*   - lanePosition is the numerator of the lane over LaneDen.             *)
(* The input domains below contain no value on which the rounding of a     *)
(* double changes the outcome of a comparison of the code.                 *)
(***************************************************************************)
EXTENDS Integers, Sequences, FiniteSets, TLC

\* ------------------------------------------------------------------ bounds
\* spacing of the clock grid, in milliseconds, on which refreshes happen
StepMs == 800
\* the largest number of grid steps between two consecutive refreshes
MaxJump == 3
\* the largest number of intersecting entries an observer is delivered
MaxEntries == 2
\* the largest number of clicks on the replay button
MaxReplays == 1
\* the largest number of runs of resizeCanvas after the set-up
MaxResizes == 1
\* the largest number of calls of createRaceAnimation
MaxRaceMounts == 2
\* the largest number of calls of createPointsProgressionGraph
MaxMounts == 2
\* the largest number of profile saves waiting for the database at a time
MaxPendingSaves == 1

\* ------------------------------------------------------- program constants
ANIMATION_DURATION == 4000
Top3 == 3
LaneDen == 100

\* sector times are counted in units of 1/10 millisecond
UnitsPerSec == 10 * 1000
\* denominator of the race progress: p = progress / ProgDen
ProgDen == 2 * ANIMATION_DURATION
\* the middle lane, lanePosition: 1
MiddleLane == 1 * LaneDen
\* the 0.001 s tolerance of the ranking comparator
ScoreTolerance == UnitsPerSec \div 1000
\* finishTime: null
Null == -1

Min(a, b) == IF a < b THEN a ELSE b
Max(a, b) == IF a > b THEN a ELSE b
Abs(a) == IF a < 0 THEN -a ELSE a

RECURSIVE SeqMin(_)
SeqMin(s) == IF Len(s) = 1 THEN s[1] ELSE Min(s[1], SeqMin(Tail(s)))
RECURSIVE SeqMax(_)
SeqMax(s) == IF Len(s) = 1 THEN s[1] ELSE Max(s[1], SeqMax(Tail(s)))

\* ------------------------------------------------------------ race inputs
\* A sector string of a result row: empty/missing, "MM:SS,mmm", or a plain
\* decimal number of seconds (given here in units).
EmptyTime == [kind |-> "empty", mm |-> 0, ss |-> 0, ms |-> 0, units |-> 0]
ClockTime(m, s, f) == [kind |-> "clock", mm |-> m, ss |-> s, ms |-> f, units |-> 0]
PlainTime(u) == [kind |-> "plain", mm |-> 0, ss |-> 0, ms |-> 0, units |-> u]

\* "", "00:01,000" and "1.0003"
SectorStrings == { EmptyTime, ClockTime(0, 1, 0), PlainTime(UnitsPerSec + 3) }
\* "" and "00:01,000"
ShortSectorStrings == { EmptyTime, ClockTime(0, 1, 0) }

timeToSeconds(t) ==
    IF t.kind = "empty" THEN 0
    ELSE IF t.kind = "plain" THEN t.units
    ELSE (t.mm * 60 + t.ss) * UnitsPerSec + t.ms * (UnitsPerSec \div 1000)

ResultRows ==
    [sector1 : ShortSectorStrings, sector2 : ShortSectorStrings, sector3 : SectorStrings]

RaceInputs == UNION { [1..n -> ResultRows] : n \in 1..Top3 }

\* ---------------------------------------------------------- points inputs
\* A Round or Total_Points field of a row: text that starts with the integer
\* n ("25", "2nd"), or text parseInt cannot read ("", "DNF")
IntField(n) == [ok |-> TRUE, n |-> n]
JunkField == [ok |-> FALSE, n |-> 0]

DriverNames == {"X", "Y"}
RoundFields == { IntField(1), IntField(2) }
PointFields == { IntField(10), IntField(18), IntField(25) }

\* rows with readable fields, rows without a readable round and rows
\* without readable points
DataRows ==
    [Driver : DriverNames, Round : RoundFields, Total_Points : PointFields]
    \cup [Driver : DriverNames, Round : {JunkField}, Total_Points : {IntField(10)}]
    \cup [Driver : DriverNames, Round : {IntField(1)}, Total_Points : {JunkField}]

\* the largest number of rows of a roundData input
MaxRows == 3
RoundDataInputs == UNION { [1..n -> DataRows] : n \in 0..MaxRows }

VARIABLES
    now,            \* Date.now(), ms
    \* ---- race surface (the closure of setupRaceAnimation)
    drivers,        \* drivers; << >> when no race canvas is mounted
    startTime,      \* startTime
    animationId,    \* animationId (0 = null)
    rafQueue,       \* ids of the race surface's pending frame callbacks
    isAnimating,    \* isAnimating
    hasAnimated,    \* hasAnimated
    startTimers,    \* pending setTimeout(() => startAnimation(), 300)
    progress,       \* animate: progress of the last frame (Null before one)
    targetLane,     \* animate: state.targetLane of the last frame, per idx
    carpets,        \* animate: finishOrder after its sort, as idx list
    driverStates,   \* animate: driverStates of the last frame, after its sort
    \* ---- race surface (createRaceAnimation and the set-up it schedules)
    raceResults,    \* the results createRaceAnimation is given
    raceHtml,       \* what createRaceAnimation returned last ("" or the markup)
    setupTimers,    \* pending setTimeout(() => setupRaceAnimation(...), 100)
    raceObserverConnected,  \* the canvas observer is observing
    raceCanvas,     \* the canvas (and button) with the round's ids in the
                    \* document, by the number of its insertion; 0 = none
    closureCanvas,  \* the canvas the closure above was set up with (0 = none)
    oldSurfaces,    \* the closures of the earlier calls of setupRaceAnimation
    \* ---- points chart (globals of the page)
    hasGraphContainer,        \* #points-progression-graph exists
    roundData,                \* the rows createPointsProgressionGraph is given
    charts,                   \* every Chart created so far, by id
    chartInstance,            \* chartInstance (0 = null), an id of charts
    chartAnimationTriggered,  \* chartAnimationTriggered
    chartObserver,            \* graphContainer._observer
    chartLoops,               \* the running loops of animateDriverAvatars
    graphDisplay,             \* graphContainer.style.display
    \* ---- page
    currentUser,    \* currentUser is set (a user is logged in)
    profiles,       \* the drivers whose profile has a photoUrl
    disposerCalls,  \* the outcomes of the calls of a value a mount returned
    pendingSaves,   \* the submits of the profile form that wait at an await
    \* ---- history of the triggers, kept for the properties
    raceEntries,    \* intersecting entries delivered to the race observer
    raceViewStarts, \* starts scheduled by the race observer callback
    raceReplays,    \* clicks on the replay button
    raceResizes,    \* runs of resizeCanvas after the set-up
    raceMounts,     \* calls of createRaceAnimation
    chartMounts,    \* calls of createPointsProgressionGraph
    chartEntries,   \* intersecting entries delivered since the last mount
    chartViewStarts \* calls of animateDriverAvatars since the last mount

raceVars == <<drivers, startTime, animationId, rafQueue, isAnimating,
              hasAnimated, startTimers, progress, targetLane, carpets, driverStates>>
raceMountVars == <<raceResults, raceHtml, setupTimers, raceObserverConnected,
                   raceCanvas, closureCanvas>>
chartVars == <<hasGraphContainer, roundData, charts, chartInstance,
               chartAnimationTriggered, chartObserver, chartLoops, graphDisplay>>
pageVars == <<currentUser, profiles, disposerCalls, pendingSaves>>
historyVars == <<raceEntries, raceViewStarts, raceReplays, raceResizes, raceMounts,
                 chartMounts, chartEntries, chartViewStarts>>

vars == <<now, raceVars, raceMountVars, oldSurfaces, chartVars, pageVars, historyVars>>

\* ---------------------------------------------------- setupRaceAnimation
SetupDrivers(top3) ==
    [idx \in 1..Len(top3) |->
        LET s1 == timeToSeconds(top3[idx].sector1)
            s2 == timeToSeconds(top3[idx].sector2)
            s3 == timeToSeconds(top3[idx].sector3)
        IN [sector1 |-> s1, sector2 |-> s2, sector3 |-> s3,
            totalTime |-> s1 + s2 + s3,
            finished |-> FALSE, finishTime |-> Null,
            lanePosition |-> MiddleLane]]

slowestTime(ds) == SeqMax([i \in 1..Len(ds) |-> ds[i].totalTime])

\* ----------------------------------------------------------------- animate
\* adjustedProgress as a numerator over ProgDen:
\*   r < 0.8 : (r / 0.8) * 0.8            = r
\*   else    : 0.8 + ((r - 0.8) / 0.2) * 0.5 * 0.2 = 0.4 + r / 2
\* the second branch without its 0.8 offset
adjustedProgressNoOffset(elapsed) ==
    IF 5 * elapsed < 4 * ANIMATION_DURATION
    THEN 2 * elapsed
    ELSE elapsed - (4 * ANIMATION_DURATION) \div 5

adjustedProgress(elapsed) ==
    IF 5 * elapsed < 4 * ANIMATION_DURATION
    THEN 2 * elapsed
    ELSE (4 * ProgDen) \div 5 + (elapsed - (4 * ANIMATION_DURATION) \div 5)

raceProgress(elapsed) == Min(adjustedProgress(elapsed), ProgDen)

\* driverProgress >= 1, where driverProgress = min(progress / timeRatio, 1)
\* and timeRatio = totalTime / slowestTime.  0/0 is NaN (never >= 1) and
\* p/0 is Infinity for p > 0.
\* timeRatio inverted: slowestTime / totalTime
reachedFinishInverted(d, p, slowest) ==
    IF slowest = 0 THEN FALSE
    ELSE IF d.totalTime = 0 THEN FALSE
    ELSE p * d.totalTime >= slowest * ProgDen

reachedFinish(d, p, slowest) ==
    IF slowest = 0 THEN FALSE
    ELSE IF d.totalTime = 0 THEN p > 0
    ELSE p * slowest >= d.totalTime * ProgDen

\* driverProgress = Math.min(progress / timeRatio, 1), the fraction of the
\* track behind the car: num over den, or NaN when progress / timeRatio is
\* 0/0 (x = startX + trackLength * driverProgress)
driverProgress(d, p, slowest) ==
    IF slowest = 0 \/ (d.totalTime = 0 /\ p = 0)
    THEN [kind |-> "NaN", num |-> 0, den |-> 1]
    ELSE IF d.totalTime = 0
    THEN [kind |-> "number", num |-> 1, den |-> 1]
    ELSE [kind |-> "number",
          num |-> Min(p * slowest, d.totalTime * ProgDen),
          den |-> d.totalTime * ProgDen]

\* the update without the !driver.finished test
captureFinishAlways(d, p, slowest, t) ==
    IF reachedFinish(d, p, slowest)
    THEN [d EXCEPT !.finished = TRUE, !.finishTime = t]
    ELSE d

\* the finished / finishTime update of one driver on a frame at time t
captureFinish(d, p, slowest, t) ==
    IF reachedFinish(d, p, slowest) /\ ~d.finished
    THEN [d EXCEPT !.finished = TRUE, !.finishTime = t]
    ELSE d

\* the second phase ranked by sector2 alone
rankingScoreSectorOnly(ds, d, p) ==
    LET fastestS1 == SeqMin([i \in 1..Len(ds) |-> ds[i].sector1])
        fastestS1S2 == SeqMin([i \in 1..Len(ds) |-> ds[i].sector1 + ds[i].sector2])
        fastestTotal == SeqMin([i \in 1..Len(ds) |-> ds[i].totalTime])
    IN IF p * fastestTotal < fastestS1 * ProgDen THEN d.sector1
       ELSE IF p * fastestTotal < fastestS1S2 * ProgDen THEN d.sector2
       ELSE d.totalTime

\* rankingScore: sector1, sector1 + sector2 or totalTime by globalElapsed
rankingScore(ds, d, p) ==
    LET fastestS1 == SeqMin([i \in 1..Len(ds) |-> ds[i].sector1])
        fastestS1S2 == SeqMin([i \in 1..Len(ds) |-> ds[i].sector1 + ds[i].sector2])
        fastestTotal == SeqMin([i \in 1..Len(ds) |-> ds[i].totalTime])
    IN IF p * fastestTotal < fastestS1 * ProgDen THEN d.sector1
       ELSE IF p * fastestTotal < fastestS1S2 * ProgDen THEN d.sector1 + d.sector2
       ELSE d.totalTime

\* comparator of driverStates.sort: TRUE when a is placed before b
rankBefore(a, b) ==
    IF Abs(a.rankingScore - b.rankingScore) > ScoreTolerance
    THEN a.rankingScore < b.rankingScore
    ELSE a.idx < b.idx

\* comparator of finishOrder.sort: a.finishTime - b.finishTime < 0
finishBefore(a, b) == a.finishTime < b.finishTime

\* a function over 1..n as an evaluated tuple
Tuple(f) == SubSeq(f, 1, Len(f))

\* Array.prototype.sort is stable: each element is placed behind the elements
\* it is not before (SortSeq is a stable insertion sort)
\* driverStates.sort(...)
sortDriverStates(states) == SortSeq(Tuple(states), rankBefore)

\* finishOrder.sort((a, b) => a.finishTime - b.finishTime)
sortFinishOrder(finishOrder) == SortSeq(Tuple(finishOrder), finishBefore)

\* position (1-based) of the element with the given idx in the sequence s
RECURSIVE IndexOf(_, _)
IndexOf(s, x) == IF s[1].idx = x THEN 1 ELSE 1 + IndexOf(Tail(s), x)

\* the lane set to its target at once
laneStepJump(currentLane, target) == target * LaneDen

\* lanePosition after one frame: laneChangeSpeed towards targetLane
laneStep(currentLane, target) ==
    IF Abs(currentLane - target * LaneDen) < 1 THEN target * LaneDen
    ELSE IF currentLane < target * LaneDen
         THEN Min(currentLane + 1, target * LaneDen)
         ELSE Max(currentLane - 1, target * LaneDen)

\* the drivers after the finish capture of a frame at time t
FrameDrivers(ds, p, t) ==
    Tuple([i \in 1..Len(ds) |-> captureFinish(ds[i], p, slowestTime(ds), t)])

\* driverStates before its sort
FrameStates(ds, p) ==
    Tuple([i \in 1..Len(ds) |->
              [idx |-> i,
               xProgress |-> driverProgress(ds[i], p, slowestTime(ds)),
               rankingScore |-> rankingScore(ds, ds[i], p)]])

\* finishOrder before its sort: the finished drivers, in idx order
FinishOrder(ds) ==
    SelectSeq(Tuple([i \in 1..Len(ds) |->
                        [idx |-> i, finished |-> ds[i].finished,
                         finishTime |-> ds[i].finishTime]]),
              LAMBDA item : item.finished)

\* the idx of the elements of a list of items, in list order
IdxList(items) == Tuple([k \in 1..Len(items) |-> items[k].idx])

\* a handle of requestAnimationFrame: ids are opaque; the model hands out
\* the least id that is neither pending nor held in animationId
FreshId(queue, held) ==
    CHOOSE i \in 1..(Cardinality(queue) + 2) :
        /\ i \notin queue /\ i # held
        /\ \A j \in 1..(i - 1) : j \in queue \/ j = held

\* one run of animate() for the callback id, at the clock value t
Animate(id, t) ==
    \E p \in {raceProgress(t - startTime)} :
    \E ds1 \in {FrameDrivers(drivers, p, t)} :
    \E sorted \in {sortDriverStates(FrameStates(ds1, p))} :
    \E lanes \in {Tuple([i \in 1..Len(ds1) |-> IndexOf(sorted, i) - 1])} :
    \E q \in {rafQueue \ {id}} :
       /\ drivers' = Tuple([i \in 1..Len(ds1) |->
                       [ds1[i] EXCEPT !.lanePosition =
                                         laneStep(ds1[i].lanePosition, lanes[i])]])
       /\ progress' = p
       /\ targetLane' = lanes
       /\ driverStates' = sorted
       /\ carpets' = IdxList(sortFinishOrder(FinishOrder(ds1)))
       /\ IF p < ProgDen
          THEN /\ animationId' = FreshId(q, animationId)
               /\ rafQueue' = q \cup {animationId'}
               /\ isAnimating' = isAnimating
          ELSE /\ animationId' = animationId
               /\ rafQueue' = q
               /\ isAnimating' = FALSE

\* cancelAnimationFrame(id) on the pending frame callbacks
cancelAnimationFrame(queue, id) == queue \ {id}

\* startAnimation() that schedules its frame without cancelling the one
\* scheduled before
startAnimationFromNoCancel(queue) ==
    LET nid == FreshId(queue, 0)
    IN /\ drivers' = [i \in 1..Len(drivers) |->
                        [drivers[i] EXCEPT !.finished = FALSE, !.finishTime = Null,
                                           !.lanePosition = MiddleLane]]
       /\ isAnimating' = TRUE
       /\ startTime' = now
       /\ animationId' = nid
       /\ rafQueue' = queue \cup {nid}

\* startAnimation() without the drivers.forEach that resets the cars
startAnimationFromNoReset(queue) ==
    LET q == IF animationId # 0 THEN cancelAnimationFrame(queue, animationId) ELSE queue
        nid == FreshId(q, 0)
    IN /\ drivers' = drivers
       /\ isAnimating' = TRUE
       /\ startTime' = now
       /\ animationId' = nid
       /\ rafQueue' = q \cup {nid}

\* startAnimation() run with the given frame callbacks pending
startAnimationFrom(queue) ==
    LET q == IF animationId # 0 THEN cancelAnimationFrame(queue, animationId) ELSE queue
        nid == FreshId(q, 0)
    IN /\ drivers' = [i \in 1..Len(drivers) |->
                        [drivers[i] EXCEPT !.finished = FALSE, !.finishTime = Null,
                                           !.lanePosition = MiddleLane]]
       /\ isAnimating' = TRUE
       /\ startTime' = now
       /\ animationId' = nid
       /\ rafQueue' = q \cup {nid}

\* startAnimation()
startAnimation == startAnimationFrom(rafQueue)

\* --------------------------------------- closures of earlier set-ups
\* Every call of setupRaceAnimation makes a closure of its own; nothing
\* disposes of one.  The variables above hold the closure made last; the
\* closures made before it live on in oldSurfaces, each with its drivers,
\* its flags, its timers, its pending frame and the canvas it draws on.
CurrentSurface ==
    [drivers |-> drivers, startTime |-> startTime, animationId |-> animationId,
     rafQueue |-> rafQueue, isAnimating |-> isAnimating, hasAnimated |-> hasAnimated,
     startTimers |-> startTimers, progress |-> progress, canvas |-> closureCanvas,
     observerConnected |-> raceObserverConnected]

\* startAnimation() of the closure s at the clock value t
startSurface(s, t) ==
    LET q == IF s.animationId # 0 THEN cancelAnimationFrame(s.rafQueue, s.animationId)
             ELSE s.rafQueue
        nid == FreshId(q, 0)
    IN [s EXCEPT !.drivers = Tuple([i \in 1..Len(s.drivers) |->
                                 [s.drivers[i] EXCEPT !.finished = FALSE,
                                                      !.finishTime = Null,
                                                      !.lanePosition = MiddleLane]]),
                 !.isAnimating = TRUE,
                 !.startTime = t,
                 !.animationId = nid,
                 !.rafQueue = q \cup {nid},
                 !.progress = Null]

\* one run of animate() of the closure s at the clock value t
animateSurface(s, t) ==
    LET p == raceProgress(t - s.startTime)
        ds1 == FrameDrivers(s.drivers, p, t)
        sorted == sortDriverStates(FrameStates(ds1, p))
        id == CHOOSE x \in s.rafQueue : TRUE
        q == s.rafQueue \ {id}
        nid == FreshId(q, s.animationId)
    IN [s EXCEPT !.drivers = Tuple([i \in 1..Len(ds1) |->
                                 [ds1[i] EXCEPT !.lanePosition =
                                     laneStep(ds1[i].lanePosition,
                                              IndexOf(sorted, i) - 1)]]),
                 !.progress = p,
                 !.animationId = IF p < ProgDen THEN nid ELSE @,
                 !.rafQueue = IF p < ProgDen THEN q \cup {nid} ELSE q,
                 !.isAnimating = IF p < ProgDen THEN @ ELSE FALSE]

\* the earlier closures' part of a display refresh at time t
OldSurfacesRefresh(t) ==
    oldSurfaces' = Tuple([k \in 1..Len(oldSurfaces) |->
                      IF oldSurfaces[k].rafQueue # {}
                      THEN animateSurface(oldSurfaces[k], t)
                      ELSE oldSurfaces[k]])

\* the click listeners of the earlier closures that were set up with the
\* button now in the document: the click reaches them too
OldSurfacesClick ==
    oldSurfaces' = Tuple([k \in 1..Len(oldSurfaces) |->
                      IF oldSurfaces[k].canvas = raceCanvas
                      THEN [startSurface(oldSurfaces[k], now) EXCEPT !.hasAnimated = TRUE]
                      ELSE oldSurfaces[k]])

\* an earlier closure has a frame callback pending
OldFramePending == \E k \in 1..Len(oldSurfaces) : oldSurfaces[k].rafQueue # {}

\* ------------------------------------------------------------ race actions
\* the IntersectionObserver callback of the race canvas, one entry
RaceObserverEntry(isIntersecting) ==
    /\ drivers # << >>
    /\ raceObserverConnected
    /\ isIntersecting => closureCanvas = raceCanvas
    /\ isIntersecting => raceEntries < MaxEntries
    /\ IF isIntersecting /\ ~hasAnimated
       THEN /\ hasAnimated' = TRUE
            /\ startTimers' = startTimers + 1
            /\ raceViewStarts' = raceViewStarts + 1
       ELSE UNCHANGED <<hasAnimated, startTimers, raceViewStarts>>
    /\ raceEntries' = IF isIntersecting THEN raceEntries + 1 ELSE raceEntries
    /\ UNCHANGED <<now, drivers, startTime, animationId, rafQueue, isAnimating,
                   progress, targetLane, carpets, driverStates, raceReplays>>
    /\ UNCHANGED <<raceMountVars, oldSurfaces, chartVars, pageVars, raceResizes, raceMounts,
                   chartMounts, chartEntries, chartViewStarts>>

\* the 300 ms timer of the observer callback fires
RaceStartTimer ==
    /\ startTimers > 0
    /\ startTimers' = startTimers - 1
    /\ startAnimation
    /\ progress' = Null
    /\ UNCHANGED <<now, hasAnimated, targetLane, carpets, driverStates>>
    /\ UNCHANGED <<raceMountVars, oldSurfaces, chartVars, pageVars, historyVars>>

\* the click handler without hasAnimated = true
ReplayClickNoFlag ==
    /\ drivers # << >>
    /\ closureCanvas = raceCanvas
    /\ raceReplays < MaxReplays
    /\ raceReplays' = raceReplays + 1
    /\ startAnimation
    /\ progress' = Null
    /\ OldSurfacesClick
    /\ UNCHANGED <<now, hasAnimated, startTimers, targetLane, carpets, driverStates>>
    /\ UNCHANGED <<raceMountVars, chartVars, pageVars, raceEntries, raceViewStarts,
                   raceResizes, raceMounts, chartMounts, chartEntries, chartViewStarts>>

\* click on the replay button in the document
ReplayClick ==
    /\ drivers # << >>
    /\ closureCanvas = raceCanvas
    /\ raceReplays < MaxReplays
    /\ raceReplays' = raceReplays + 1
    /\ hasAnimated' = TRUE
    /\ startAnimation
    /\ progress' = Null
    /\ OldSurfacesClick
    /\ UNCHANGED <<now, startTimers, targetLane, carpets, driverStates>>
    /\ UNCHANGED <<raceMountVars, chartVars, pageVars, raceEntries, raceViewStarts,
                   raceResizes, raceMounts, chartMounts, chartEntries, chartViewStarts>>

\* the race surface's part of a display refresh at time t
RaceRefresh(t) ==
    IF rafQueue # {}
    THEN \E id \in rafQueue : Animate(id, t)
    ELSE UNCHANGED <<drivers, progress, targetLane, carpets, driverStates,
                     animationId, rafQueue, isAnimating>>

\* resizeCanvas without the isAnimating test
ResizeCanvasAlways ==
    /\ drivers # << >>
    /\ raceResizes < MaxResizes
    /\ raceResizes' = raceResizes + 1
    /\ startAnimationFrom(cancelAnimationFrame(rafQueue, animationId))
    /\ progress' = Null
    /\ UNCHANGED <<now, hasAnimated, startTimers, targetLane, carpets, driverStates>>
    /\ UNCHANGED <<raceMountVars, oldSurfaces, chartVars, pageVars, raceEntries, raceViewStarts,
                   raceReplays, raceMounts, chartMounts, chartEntries, chartViewStarts>>

\* a run of resizeCanvas after the set-up (the resize timer or the
\* orientationchange timer fires)
ResizeCanvas ==
    /\ drivers # << >>
    /\ raceResizes < MaxResizes
    /\ raceResizes' = raceResizes + 1
    /\ IF isAnimating
       THEN /\ startAnimationFrom(cancelAnimationFrame(rafQueue, animationId))
            /\ progress' = Null
       ELSE UNCHANGED <<drivers, isAnimating, startTime, animationId, rafQueue, progress>>
    /\ UNCHANGED <<now, hasAnimated, startTimers, targetLane, carpets, driverStates>>
    /\ UNCHANGED <<raceMountVars, oldSurfaces, chartVars, pageVars, raceEntries, raceViewStarts,
                   raceReplays, raceMounts, chartMounts, chartEntries, chartViewStarts>>

\* results.slice(0, 3)
top3Of(results) == SubSeq(results, 1, Min(Top3, Len(results)))

\* the canvases the model has numbered so far
knownCanvases ==
    {raceCanvas, closureCanvas} \cup {oldSurfaces[k].canvas : k \in 1..Len(oldSurfaces)}

\* the number of a canvas element created now
newCanvas == 1 + CHOOSE n \in knownCanvases : \A m \in knownCanvases : m <= n

\* the document after a call of createRaceAnimation.  displayRoundData
\* empties its container before the call and appends the markup it gets
\* back, if any (rendered); a caller that does neither leaves the document
\* as it is
documentAfter(rendered, html) ==
    IF ~rendered THEN raceCanvas
    ELSE IF html = "" THEN 0
    ELSE newCanvas

\* createRaceAnimation without the test for an empty top3
createRaceAnimationNoCheck(rendered) ==
    /\ raceMounts < MaxRaceMounts
    /\ raceMounts' = raceMounts + 1
    /\ raceHtml' = "race-animation-container"
    /\ setupTimers' = setupTimers + 1
    /\ raceCanvas' = documentAfter(rendered, raceHtml')
    /\ UNCHANGED <<now, raceVars, raceResults, raceObserverConnected, closureCanvas,
                   oldSurfaces, chartVars, pageVars,
                   raceEntries, raceViewStarts, raceReplays, raceResizes,
                   chartMounts, chartEntries, chartViewStarts>>

\* createRaceAnimation(roundKey, results), called for the round of the model
createRaceAnimation(rendered) ==
    /\ raceMounts < MaxRaceMounts
    /\ raceMounts' = raceMounts + 1
    /\ IF top3Of(raceResults) = << >>
       THEN /\ raceHtml' = ""
            /\ UNCHANGED setupTimers
       ELSE /\ raceHtml' = "race-animation-container"
            /\ setupTimers' = setupTimers + 1
    /\ raceCanvas' = documentAfter(rendered, raceHtml')
    /\ UNCHANGED <<now, raceVars, raceResults, raceObserverConnected, closureCanvas,
                   oldSurfaces, chartVars, pageVars,
                   raceEntries, raceViewStarts, raceReplays, raceResizes,
                   chartMounts, chartEntries, chartViewStarts>>

\* loadRoundData() with a season selected that the round of the model is
\* not part of: displayRoundData empties #round-content, the round is not
\* among its groups and createRaceAnimation is not called for it.  The
\* closures and the timers of earlier calls stay as they are
displayRoundDataWithoutRound ==
    /\ raceCanvas' = 0
    /\ UNCHANGED <<now, raceVars, raceResults, raceHtml, setupTimers,
                   raceObserverConnected, closureCanvas, oldSurfaces,
                   chartVars, pageVars, historyVars>>

\* the 100 ms timer of createRaceAnimation fires: setupRaceAnimation, which
\* returns at once when the canvas or the button is not in the document and
\* makes a new closure otherwise; the closure made before stays as it is
SetupRaceTimer ==
    /\ setupTimers > 0
    /\ setupTimers' = setupTimers - 1
    /\ IF raceCanvas = 0
       THEN UNCHANGED <<raceVars, raceObserverConnected, closureCanvas, oldSurfaces>>
       ELSE /\ oldSurfaces' = IF drivers = << >> THEN oldSurfaces
                              ELSE Append(oldSurfaces, CurrentSurface)
            /\ drivers' = SetupDrivers(top3Of(raceResults))
            /\ startTime' = 0
            /\ animationId' = 0
            /\ rafQueue' = {}
            /\ hasAnimated' = FALSE
            /\ isAnimating' = FALSE
            /\ startTimers' = 0
            /\ progress' = Null
            /\ targetLane' = << >>
            /\ carpets' = << >>
            /\ driverStates' = << >>
            /\ raceObserverConnected' = TRUE
            /\ closureCanvas' = raceCanvas
    /\ UNCHANGED <<now, raceResults, raceHtml, raceCanvas>>
    /\ UNCHANGED <<chartVars, pageVars, historyVars>>

\* the 300 ms start timer of the earlier closure k fires
OldStartTimer(k) ==
    /\ oldSurfaces[k].startTimers > 0
    /\ oldSurfaces' = [oldSurfaces EXCEPT
                          ![k] = [startSurface(oldSurfaces[k], now) EXCEPT
                                     !.startTimers = @ - 1]]
    /\ UNCHANGED <<now, raceVars, raceMountVars, chartVars, pageVars, historyVars>>

\* the observer of the earlier closure k is delivered an intersecting entry:
\* its canvas is the one in the document
OldObserverEntry(k) ==
    /\ oldSurfaces[k].observerConnected
    /\ oldSurfaces[k].canvas = raceCanvas
    /\ raceEntries < MaxEntries
    /\ raceEntries' = raceEntries + 1
    /\ oldSurfaces' = [oldSurfaces EXCEPT
                          ![k] = IF ~oldSurfaces[k].hasAnimated
                                 THEN [oldSurfaces[k] EXCEPT !.hasAnimated = TRUE,
                                                             !.startTimers = @ + 1]
                                 ELSE oldSurfaces[k]]
    /\ UNCHANGED <<now, raceVars, raceMountVars, chartVars, pageVars, raceViewStarts,
                   raceReplays, raceResizes, raceMounts, chartMounts, chartEntries,
                   chartViewStarts>>

\* a run of resizeCanvas of the earlier closure k (the listeners on window
\* stay registered)
OldResizeCanvas(k) ==
    /\ raceResizes < MaxResizes
    /\ raceResizes' = raceResizes + 1
    /\ oldSurfaces' = [oldSurfaces EXCEPT
                          ![k] = IF oldSurfaces[k].isAnimating
                                 THEN startSurface(
                                          [oldSurfaces[k] EXCEPT !.rafQueue =
                                              cancelAnimationFrame(@, oldSurfaces[k].animationId)],
                                          now)
                                 ELSE oldSurfaces[k]]
    /\ UNCHANGED <<now, raceVars, raceMountVars, chartVars, pageVars, raceEntries,
                   raceViewStarts, raceReplays, raceMounts, chartMounts, chartEntries,
                   chartViewStarts>>

\* what a mount hands back: createRaceAnimation a string, setupRaceAnimation
\* and createPointsProgressionGraph undefined
MountReturns == { "string", "undefined" }

\* calling a value: only a function can be called
CallOf(value) == IF value = "function" THEN "returned" ELSE "TypeError"

\* the caller calls what a mount returned as a disposer
CallDisposer(value) ==
    /\ raceMounts > 0 \/ chartMounts > 0
    /\ value = "string" => raceMounts > 0
    /\ disposerCalls' = disposerCalls \cup {CallOf(value)}
    /\ UNCHANGED <<now, raceVars, raceMountVars, oldSurfaces, chartVars, currentUser, profiles,
                   pendingSaves, historyVars>>

\* ------------------------------------------ createPointsProgressionGraph
animationDuration == 2500

\* parseInt(x) || 0
parseIntOr0(field) == IF field.ok THEN field.n ELSE 0

Front(q) == SubSeq(q, 1, Len(q) - 1)
Last(q) == q[Len(q)]
Contains(q, x) == \E k \in 1..Len(q) : q[k] = x

\* driverRounds after roundData.forEach, as a map from <<driver, round>>;
\* a pair no row has set is outside its domain
RECURSIVE driverRounds(_)
driverRounds(rows) ==
    IF rows = << >> THEN [key \in {} |-> 0]
    ELSE LET row == Last(rows)
             key == <<row.Driver, parseIntOr0(row.Round)>>
             prev == driverRounds(Front(rows))
             old == IF key \in DOMAIN prev THEN prev[key] ELSE 0
         IN (key :> old + parseIntOr0(row.Total_Points)) @@ prev

\* Object.keys(driverRounds): the drivers in order of first appearance
RECURSIVE driverKeys(_)
driverKeys(rows) ==
    IF rows = << >> THEN << >>
    ELSE LET prev == driverKeys(Front(rows))
         IN IF Contains(prev, Last(rows).Driver) THEN prev
            ELSE Append(prev, Last(rows).Driver)

\* allRounds, a Set, in insertion order
RECURSIVE allRounds(_)
allRounds(rows) ==
    IF rows = << >> THEN << >>
    ELSE LET prev == allRounds(Front(rows))
         IN IF Contains(prev, parseIntOr0(Last(rows).Round)) THEN prev
            ELSE Append(prev, parseIntOr0(Last(rows).Round))

numberBefore(a, b) == a < b

\* Array.from(allRounds).sort((a, b) => a - b)
sortedRounds(rows) == SortSeq(Tuple(allRounds(rows)), numberBefore)

\* driverRounds[driver][round] || 0
roundPoints(dr, driver, round) ==
    IF <<driver, round>> \in DOMAIN dr THEN dr[<<driver, round>>] ELSE 0

\* the values pushed by sortedRounds.forEach: the running total
RECURSIVE runningTotals(_, _, _)
runningTotals(dr, driver, rounds) ==
    IF rounds = << >> THEN << >>
    ELSE LET prev == runningTotals(dr, driver, Front(rounds))
             total == IF prev = << >> THEN 0 ELSE Last(prev)
         IN Append(prev, total + roundPoints(dr, driver, Last(rounds)))

\* the list without the leading [0]
cumulativePointsNoOrigin(dr, driver, rounds) == runningTotals(dr, driver, rounds)

\* every push the points of the round alone
cumulativePointsPerRound(dr, driver, rounds) ==
    << 0 >> \o Tuple([i \in 1..Len(rounds) |-> roundPoints(dr, driver, rounds[i])])

\* const cumulativePoints = [0]; ... cumulativePoints.push(total)
cumulativePoints(dr, driver, rounds) == << 0 >> \o runningTotals(dr, driver, rounds)

\* usePhoto without the currentUser test
usePhotoAnyUser(driver) == driver \in profiles

\* usePhoto = currentUser && profile.photoUrl, as a truth value
usePhoto(driver) == currentUser /\ driver \in profiles

\* the datasets of the chart, one per driver
Datasets(rows) ==
    LET keys == driverKeys(rows)
    IN Tuple([k \in 1..Len(keys) |->
                 [driverName |-> keys[k],
                  data |-> cumulativePoints(driverRounds(rows), keys[k], sortedRounds(rows)),
                  borderWidth |-> 0,
                  photoUrl |-> usePhoto(keys[k])]])

NoObserver == [connected |-> FALSE, rounds |-> << >>]

\* a chart no frame of animate() has drawn on
NoFrame == [progress |-> Null, roundIndex |-> 0, roundProgress |-> 0,
            line |-> {}, segment |-> FALSE, tipIndex |-> 0, tipProgress |-> 0,
            dataReads |-> {}, pointReads |-> {}, avatars |-> << >>]

\* createPointsProgressionGraph(roundData, selectedSeason), with the
\* setupChartVisibilityObserver it ends in
createPointsProgressionGraph ==
    /\ chartMounts < MaxMounts
    /\ chartMounts' = chartMounts + 1
    /\ IF ~hasGraphContainer
       THEN UNCHANGED <<charts, chartInstance, chartAnimationTriggered, chartObserver,
                        graphDisplay, chartEntries, chartViewStarts>>
       ELSE \E rounds \in {sortedRounds(roundData)} :
            \E destroyed \in {Tuple([c \in 1..Len(charts) |->
                                 IF c = chartInstance
                                 THEN [charts[c] EXCEPT !.destroyed = TRUE]
                                 ELSE charts[c]])} :
              /\ chartAnimationTriggered' = FALSE
              /\ chartEntries' = 0
              /\ chartViewStarts' = 0
              /\ IF rounds = << >>
                 THEN /\ charts' = destroyed
                      /\ chartInstance' = 0
                      /\ graphDisplay' = "none"
                      /\ UNCHANGED chartObserver
                 ELSE /\ charts' = Append(destroyed,
                                      [datasets |-> Datasets(roundData),
                                       tooltipEnabled |-> FALSE,
                                       destroyed |-> FALSE,
                                       userAtMount |-> currentUser,
                                       profilesAtMount |-> profiles,
                                       tips |-> << >>,
                                       frame |-> NoFrame])
                      /\ chartInstance' = Len(charts) + 1
                      /\ graphDisplay' = "block"
                      /\ chartObserver' = [connected |-> TRUE, rounds |-> rounds]
    /\ UNCHANGED <<now, raceVars, raceMountVars, oldSurfaces, pageVars, hasGraphContainer,
                   roundData, chartLoops, raceEntries, raceViewStarts, raceReplays,
                   raceResizes, raceMounts>>

\* the same entry without the chartAnimationTriggered test
chartEntryNoFlag(st, isIntersecting) ==
    IF isIntersecting
    THEN [triggered |-> TRUE,
          started |-> IF chartInstance # 0 THEN st.started + 1 ELSE st.started,
          connected |-> FALSE]
    ELSE st

\* one entry of the chart observer's callback, on the callback's state
chartEntry(st, isIntersecting) ==
    IF isIntersecting /\ ~st.triggered
    THEN [triggered |-> TRUE,
          started |-> IF chartInstance # 0 THEN st.started + 1 ELSE st.started,
          connected |-> FALSE]
    ELSE st

\* entries.forEach(entry => ...)
RECURSIVE chartEntries_forEach(_, _)
chartEntries_forEach(st, entries) ==
    IF entries = << >> THEN st
    ELSE chartEntry(chartEntries_forEach(st, Front(entries)), Last(entries))

Intersecting(entries) == Len(SelectSeq(entries, LAMBDA e : e))

EntryBatches == UNION { [1..n -> BOOLEAN] : n \in 1..MaxEntries }

\* a loop of animateDriverAvatars(chart, rounds) started at time t
NewLoop(chart, rounds, t) ==
    [chart |-> chart, rounds |-> Len(rounds), startTime |-> t,
     avatars |-> Tuple([i \in 1..Len(charts[chart].datasets) |->
                           [hasPhoto |-> charts[chart].datasets[i].photoUrl,
                            loaded |-> FALSE]])]

\* the IntersectionObserver callback of the graph container, with the
\* entries of one delivery
ChartObserverCallback(entries) ==
    /\ chartObserver.connected
    /\ chartEntries + Intersecting(entries) <= MaxEntries
    /\ \E st \in {chartEntries_forEach([triggered |-> chartAnimationTriggered,
                                        started |-> 0, connected |-> TRUE],
                                       entries)} :
          /\ chartAnimationTriggered' = st.triggered
          /\ chartObserver' = [chartObserver EXCEPT !.connected = st.connected]
          /\ chartLoops' = chartLoops \o
                 Tuple([k \in 1..st.started |->
                           NewLoop(chartInstance, chartObserver.rounds, now)])
          /\ chartViewStarts' = chartViewStarts + st.started
    /\ chartEntries' = chartEntries + Intersecting(entries)
    /\ UNCHANGED <<now, raceVars, raceMountVars, oldSurfaces, pageVars, hasGraphContainer,
                   roundData, charts, chartInstance, graphDisplay, raceEntries,
                   raceViewStarts, raceReplays, raceResizes, raceMounts, chartMounts>>

\* progress of a points loop at time t, as a numerator over animationDuration
pointsProgress(loop, t) == Min(t - loop.startTime, animationDuration)

\* the completion branch without the tooltip line
completeChartLinesOnly(chart) ==
    [chart EXCEPT !.datasets = Tuple([k \in 1..Len(chart.datasets) |->
                                  [chart.datasets[k] EXCEPT !.borderWidth = 3]])]

\* the completion branch of animate: tooltips on, lines at full width
completeChart(chart) ==
    [chart EXCEPT !.tooltipEnabled = TRUE,
                  !.datasets = Tuple([k \in 1..Len(chart.datasets) |->
                                  [chart.datasets[k] EXCEPT !.borderWidth = 3]])]

\* the photo drawn for every avatar that has one, loaded or not
drawTipsUnloaded(loop) ==
    Tuple([i \in 1..Len(loop.avatars) |->
              IF loop.avatars[i].hasPhoto THEN "photo" ELSE "badge"])

\* what animate() draws at the tip of each line: the photo or the coloured
\* disk with the driver number
drawTips(loop) ==
    Tuple([i \in 1..Len(loop.avatars) |->
              IF loop.avatars[i].hasPhoto /\ loop.avatars[i].loaded
              THEN "photo" ELSE "badge"])

\* currentRoundIndex with Math.round in place of Math.floor
currentRoundIndexRounded(loop, e) ==
    (2 * e * loop.rounds + animationDuration) \div (2 * animationDuration)

\* currentRoundIndex = Math.floor(progress * rounds.length), for progress =
\* e / animationDuration
currentRoundIndex(loop, e) == (e * loop.rounds) \div animationDuration

\* roundProgress = currentPositionFloat - currentRoundIndex, as a numerator
\* over animationDuration
roundProgress(loop, e) ==
    e * loop.rounds - currentRoundIndex(loop, e) * animationDuration

\* meta.data.length: one point per label, 'R0' and one per round
metaLength(loop) == loop.rounds + 1

\* one run of animate() of a points loop at progress e / animationDuration:
\* what it draws for a dataset, and the indices of dataset.data and of
\* meta.data it reads (indices from 0)
drawFrame(loop, e) ==
    LET ri == currentRoundIndex(loop, e)
        rp == roundProgress(loop, e)
        len == metaLength(loop)
        \* for (i = 0; i <= currentRoundIndex; i++) { if (!point) continue; ... }
        line == { i \in 0..ri : i < len }
        \* currentRoundIndex < meta.data.length - 1 && roundProgress > 0
        segmentTest == ri < len - 1 /\ rp > 0
        segment == segmentTest /\ ri < len /\ ri + 1 < len
        \* if (!currentPoint) return
        hasTip == ri < len
        \* nextPoint && roundProgress > 0
        tipBetween == hasTip /\ ri + 1 < len /\ rp > 0
    IN [progress |-> e,
        roundIndex |-> ri,
        roundProgress |-> rp,
        line |-> line,
        segment |-> segment,
        tipIndex |-> IF hasTip THEN ri ELSE Null,
        tipProgress |-> IF tipBetween THEN rp ELSE 0,
        dataReads |-> line
                      \cup (IF segment THEN {ri, ri + 1} ELSE {})
                      \cup (IF tipBetween THEN {ri, ri + 1}
                            ELSE IF hasTip THEN {ri} ELSE {}),
        pointReads |-> (0..ri)
                       \cup (IF segmentTest THEN {ri, ri + 1} ELSE {})
                       \cup {ri, ri + 1},
        avatars |-> loop.avatars]

\* the loops that draw on chart c, and the one that draws last
LoopsOn(c) == { k \in 1..Len(chartLoops) : chartLoops[k].chart = c }
LastLoopOn(c) == CHOOSE k \in LoopsOn(c) : \A j \in LoopsOn(c) : j <= k

\* animate() of a loop stops at its first chart.update('none'): the chart
\* was destroyed by a later mount and update() of the Chart library, which
\* is not part of the repository, throws on a destroyed chart (throws) --
\* or does not, and the frame is drawn as on a live chart
updateThrows(loop, throws) == throws /\ charts[loop.chart].destroyed

\* the points chart's part of a display refresh at time t: every running
\* loop runs its animate() once; one that throws at chart.update draws
\* nothing and requests no further frame
ChartRefresh(t, throws) ==
    /\ chartLoops' = SelectSeq(chartLoops,
                               LAMBDA l : /\ ~updateThrows(l, throws)
                                          /\ pointsProgress(l, t) < animationDuration)
    /\ charts' = Tuple([c \in 1..Len(charts) |->
                    IF LoopsOn(c) = {} \/ (throws /\ charts[c].destroyed) THEN charts[c]
                    ELSE IF \E k \in LoopsOn(c) :
                               pointsProgress(chartLoops[k], t) >= animationDuration
                    THEN [completeChart(charts[c]) EXCEPT
                              !.tips = drawTips(chartLoops[LastLoopOn(c)]),
                              !.frame = drawFrame(chartLoops[LastLoopOn(c)],
                                            pointsProgress(chartLoops[LastLoopOn(c)], t))]
                    ELSE [charts[c] EXCEPT
                              !.tips = drawTips(chartLoops[LastLoopOn(c)]),
                              !.frame = drawFrame(chartLoops[LastLoopOn(c)],
                                            pointsProgress(chartLoops[LastLoopOn(c)], t))]])

\* avatar.img.onload of avatar i of loop k
ImageLoaded(k, i) ==
    /\ chartLoops[k].avatars[i].hasPhoto
    /\ ~chartLoops[k].avatars[i].loaded
    /\ chartLoops' = [chartLoops EXCEPT ![k].avatars[i].loaded = TRUE]
    /\ UNCHANGED <<now, raceVars, raceMountVars, oldSurfaces, pageVars, historyVars,
                   hasGraphContainer, roundData, charts, chartInstance,
                   chartAnimationTriggered, chartObserver, graphDisplay>>

\* avatar.img.onerror of avatar i of loop k
ImageFailed(k, i) ==
    /\ chartLoops[k].avatars[i].hasPhoto
    /\ ~chartLoops[k].avatars[i].loaded
    /\ chartLoops' = [chartLoops EXCEPT ![k].avatars[i].hasPhoto = FALSE]
    /\ UNCHANGED <<now, raceVars, raceMountVars, oldSurfaces, pageVars, historyVars,
                   hasGraphContainer, roundData, charts, chartInstance,
                   chartAnimationTriggered, chartObserver, graphDisplay>>

\* login() (currentUser = {...}) and signOut() (currentUser = null)
SetCurrentUser(user) ==
    /\ currentUser # user
    /\ currentUser' = user
    /\ UNCHANGED <<now, raceVars, raceMountVars, oldSurfaces, chartVars, profiles, disposerCalls,
                   pendingSaves, historyVars>>

\* the onValue listener on Driver_Profiles is delivered a snapshot: without
\* data it returns; with data DRIVER_PROFILES is emptied and built again
\* (photos = the drivers of the snapshot with a Photo_URL)
DriverProfilesListener(hasData, photos) ==
    /\ profiles' = IF hasData THEN photos ELSE profiles
    /\ UNCHANGED <<now, raceVars, raceMountVars, oldSurfaces, chartVars, currentUser,
                   disposerCalls, pendingSaves, historyVars>>

\* the profile form is submitted by the user logged in, who is driver: the
\* handler tests currentUser, reads the form (hasPhoto = the Photo URL field
\* is not empty) and usernameKey, and waits for the database (await
\* firebaseGet and await firebaseSet; nothing of the page is read or
\* written between the two)
SubmitProfile(driver, hasPhoto) ==
    /\ currentUser
    /\ Len(pendingSaves) < MaxPendingSaves
    /\ pendingSaves' = Append(pendingSaves, [driver |-> driver, hasPhoto |-> hasPhoto])
    /\ UNCHANGED <<now, raceVars, raceMountVars, oldSurfaces, chartVars, currentUser,
                   profiles, disposerCalls, historyVars>>

\* the database answers the save k: when the promise resolves the handler
\* goes on and writes DRIVER_PROFILES[usernameKey], whoever is logged in by
\* then; when it rejects the catch block runs and nothing is written
SettleSave(k, resolved) ==
    /\ pendingSaves' = Tuple([i \in 1..(Len(pendingSaves) - 1) |->
                           IF i < k THEN pendingSaves[i] ELSE pendingSaves[i + 1]])
    /\ profiles' = IF ~resolved THEN profiles
                   ELSE IF pendingSaves[k].hasPhoto
                        THEN profiles \cup {pendingSaves[k].driver}
                        ELSE profiles \ {pendingSaves[k].driver}
    /\ UNCHANGED <<now, raceVars, raceMountVars, oldSurfaces, chartVars, currentUser,
                   disposerCalls, historyVars>>

\* a display refresh at which Date.now() has not moved on
RefreshFrozenClock(jump) ==
    /\ rafQueue # {} \/ OldFramePending \/ chartLoops # << >>
    /\ now' = now
    /\ RaceRefresh(now')
    /\ OldSurfacesRefresh(now')
    /\ \E throws \in BOOLEAN : ChartRefresh(now', throws)
    /\ UNCHANGED <<startTime, hasAnimated, startTimers>>
    /\ UNCHANGED <<hasGraphContainer, roundData, chartInstance,
                   chartAnimationTriggered, chartObserver, graphDisplay>>
    /\ UNCHANGED <<raceMountVars, pageVars, historyVars>>

\* a display refresh, jump grid steps after the previous event: the browser
\* runs the pending frame callbacks
Refresh(jump) ==
    /\ rafQueue # {} \/ OldFramePending \/ chartLoops # << >>
    /\ now' = now + jump * StepMs
    /\ RaceRefresh(now')
    /\ OldSurfacesRefresh(now')
    /\ \E throws \in BOOLEAN : ChartRefresh(now', throws)
    /\ UNCHANGED <<startTime, hasAnimated, startTimers>>
    /\ UNCHANGED <<hasGraphContainer, roundData, chartInstance,
                   chartAnimationTriggered, chartObserver, graphDisplay>>
    /\ UNCHANGED <<raceMountVars, pageVars, historyVars>>

\* ------------------------------------------------------------ specifications
NoRace ==
    /\ raceResults = << >>
    /\ raceHtml = ""
    /\ setupTimers = 0
    /\ raceObserverConnected = FALSE
    /\ raceCanvas = 0
    /\ closureCanvas = 0
    /\ oldSurfaces = << >>
    /\ drivers = << >>
    /\ startTime = 0
    /\ animationId = 0
    /\ rafQueue = {}
    /\ isAnimating = FALSE
    /\ hasAnimated = FALSE
    /\ startTimers = 0
    /\ progress = Null
    /\ targetLane = << >>
    /\ carpets = << >>
    /\ driverStates = << >>

\* the closure right after setupRaceAnimation(canvasId, replayBtnId, top3)
RaceMounted(top3) ==
    /\ raceResults = top3
    /\ raceHtml = "race-animation-container"
    /\ setupTimers = 0
    /\ raceObserverConnected = TRUE
    /\ raceCanvas = 1
    /\ closureCanvas = 1
    /\ oldSurfaces = << >>
    /\ drivers = SetupDrivers(top3)
    /\ startTime = 0
    /\ animationId = 0
    /\ rafQueue = {}
    /\ isAnimating = FALSE
    /\ hasAnimated = FALSE
    /\ startTimers = 0
    /\ progress = Null
    /\ targetLane = << >>
    /\ carpets = << >>
    /\ driverStates = << >>

\* the globals of the page before createPointsProgressionGraph is called
ChartUnmounted(container, rows) ==
    /\ hasGraphContainer = container
    /\ roundData = rows
    /\ charts = << >>
    /\ chartInstance = 0
    /\ chartAnimationTriggered = FALSE
    /\ chartObserver = NoObserver
    /\ chartLoops = << >>
    /\ graphDisplay = ""

\* nobody logged in, no profile photo, no returned value called
PlainPage ==
    /\ currentUser = FALSE
    /\ profiles = {}
    /\ disposerCalls = {}
    /\ pendingSaves = << >>

NoHistory ==
    /\ raceResizes = 0
    /\ raceMounts = 0
    /\ raceEntries = 0
    /\ raceViewStarts = 0
    /\ raceReplays = 0
    /\ chartMounts = 0
    /\ chartEntries = 0
    /\ chartViewStarts = 0

\* one race playback started by the visibility trigger, for every input
InitRace ==
    /\ now = 0
    /\ \E top3 \in RaceInputs : RaceMounted(top3)
    /\ ChartUnmounted(FALSE, << >>)
    /\ PlainPage
    /\ NoHistory

NextRace ==
    \/ \E b \in BOOLEAN : RaceObserverEntry(b)
    \/ RaceStartTimer
    \/ \E jump \in 1..MaxJump : Refresh(jump)

SpecRace == InitRace /\ [][NextRace]_vars

\* the points chart built from every input
InitPoints ==
    /\ now = 0
    /\ NoRace
    /\ \E rows \in RoundDataInputs : ChartUnmounted(TRUE, rows)
    /\ PlainPage
    /\ NoHistory

NextPoints == createPointsProgressionGraph

SpecPoints == InitPoints /\ [][NextPoints]_vars

\* a finisher list of three with two equal totals, and one of two
SurfaceRaceInputs ==
    { << [sector1 |-> ClockTime(0, 1, 0), sector2 |-> ClockTime(0, 1, 0),
          sector3 |-> PlainTime(UnitsPerSec + 3)],
         [sector1 |-> ClockTime(0, 1, 0), sector2 |-> EmptyTime,
          sector3 |-> ClockTime(0, 1, 0)],
         [sector1 |-> EmptyTime, sector2 |-> ClockTime(0, 1, 0),
          sector3 |-> ClockTime(0, 1, 0)] >>,
      << [sector1 |-> ClockTime(0, 1, 0), sector2 |-> ClockTime(0, 1, 0),
          sector3 |-> ClockTime(0, 1, 0)],
         [sector1 |-> ClockTime(0, 1, 0), sector2 |-> EmptyTime,
          sector3 |-> EmptyTime] >> }

\* X: R1 = 25, X: R2 = 18, Y: R1 = 10; and no rows at all
SurfaceRoundData ==
    { << [Driver |-> "X", Round |-> IntField(1), Total_Points |-> IntField(25)],
         [Driver |-> "X", Round |-> IntField(2), Total_Points |-> IntField(18)],
         [Driver |-> "Y", Round |-> IntField(1), Total_Points |-> IntField(10)] >>,
      << >> }

\* one mounted surface, the race canvas or the points chart, under every
\* interleaving of its events; the two surfaces share no state
InitSurface ==
    /\ now = 0
    /\ \/ /\ \E top3 \in SurfaceRaceInputs : RaceMounted(top3)
          /\ ChartUnmounted(FALSE, << >>)
       \/ /\ NoRace
          /\ \E rows \in SurfaceRoundData : ChartUnmounted(TRUE, rows)
    /\ PlainPage
    /\ NoHistory

NextSurface ==
    \/ \E b \in BOOLEAN : RaceObserverEntry(b)
    \/ RaceStartTimer
    \/ ReplayClick
    \/ createPointsProgressionGraph
    \/ \E entries \in EntryBatches : ChartObserverCallback(entries)
    \/ \E jump \in 1..MaxJump : Refresh(jump)

SpecSurface == InitSurface /\ [][NextSurface]_vars

\* nothing of the race surface exists yet; results is what it will be given
RaceUnmounted(results) ==
    /\ raceResults = results
    /\ raceHtml = ""
    /\ setupTimers = 0
    /\ raceObserverConnected = FALSE
    /\ raceCanvas = 0
    /\ closureCanvas = 0
    /\ oldSurfaces = << >>
    /\ drivers = << >>
    /\ startTime = 0
    /\ animationId = 0
    /\ rafQueue = {}
    /\ isAnimating = FALSE
    /\ hasAnimated = FALSE
    /\ startTimers = 0
    /\ progress = Null
    /\ targetLane = << >>
    /\ carpets = << >>
    /\ driverStates = << >>

\* results of four, two and no finishers
EngineRaceInputs ==
    { << [sector1 |-> ClockTime(0, 1, 0), sector2 |-> ClockTime(0, 1, 0),
          sector3 |-> ClockTime(0, 1, 0)],
         [sector1 |-> ClockTime(0, 1, 0), sector2 |-> EmptyTime,
          sector3 |-> PlainTime(UnitsPerSec + 3)],
         [sector1 |-> EmptyTime, sector2 |-> ClockTime(0, 1, 0),
          sector3 |-> EmptyTime],
         [sector1 |-> EmptyTime, sector2 |-> EmptyTime,
          sector3 |-> ClockTime(0, 1, 0)] >>,
      << [sector1 |-> ClockTime(0, 1, 0), sector2 |-> ClockTime(0, 1, 0),
          sector3 |-> EmptyTime],
         [sector1 |-> ClockTime(0, 1, 0), sector2 |-> EmptyTime,
          sector3 |-> EmptyTime] >>,
      << >> }

\* the page before any mount: one surface, the race canvas or the points
\* chart, will be mounted, with or without input
InitEngine ==
    /\ now = 0
    /\ \/ /\ \E results \in EngineRaceInputs : RaceUnmounted(results)
          /\ ChartUnmounted(FALSE, << >>)
       \/ /\ RaceUnmounted(<< >>)
          /\ \E rows \in SurfaceRoundData : ChartUnmounted(TRUE, rows)
    /\ PlainPage
    /\ NoHistory

\* mounts and re-mounts of the surface with the starts the visibility
\* observers cause; the display refreshes MaxJump steps apart
NextEngine ==
    \/ \E rendered \in BOOLEAN : createRaceAnimation(rendered)
    \/ displayRoundDataWithoutRound
    \/ SetupRaceTimer
    \/ \E b \in BOOLEAN : RaceObserverEntry(b)
    \/ RaceStartTimer
    \/ \E k \in 1..Len(oldSurfaces) : OldObserverEntry(k)
    \/ \E k \in 1..Len(oldSurfaces) : OldStartTimer(k)
    \/ createPointsProgressionGraph
    \/ \E entries \in EntryBatches : ChartObserverCallback(entries)
    \/ \E value \in MountReturns : CallDisposer(value)
    \/ Refresh(MaxJump)

SpecEngine == InitEngine /\ [][NextEngine]_vars

\* the same mounts and re-mounts with the events the user causes: replay
\* clicks and resizes reach the listeners of every closure set up so far
NextRemount ==
    \/ \E rendered \in BOOLEAN : createRaceAnimation(rendered)
    \/ displayRoundDataWithoutRound
    \/ SetupRaceTimer
    \/ ReplayClick
    \/ ResizeCanvas
    \/ \E k \in 1..Len(oldSurfaces) : OldResizeCanvas(k)
    \/ createPointsProgressionGraph
    \/ \E entries \in EntryBatches : ChartObserverCallback(entries)
    \/ Refresh(MaxJump)

SpecRemount == InitEngine /\ [][NextRemount]_vars

\* two finishers, the slower one first
ControlsRaceInput ==
    << [sector1 |-> ClockTime(0, 1, 0), sector2 |-> ClockTime(0, 1, 0),
        sector3 |-> ClockTime(0, 1, 0)],
       [sector1 |-> ClockTime(0, 1, 0), sector2 |-> EmptyTime,
        sector3 |-> ClockTime(0, 1, 0)] >>

\* one race surface under every interleaving of observer entries, start
\* timers, replay clicks, resizes and refreshes
InitControls ==
    /\ now = 0
    /\ RaceMounted(ControlsRaceInput)
    /\ ChartUnmounted(FALSE, << >>)
    /\ PlainPage
    /\ NoHistory

NextControls ==
    \/ \E b \in BOOLEAN : RaceObserverEntry(b)
    \/ RaceStartTimer
    \/ ReplayClick
    \/ ResizeCanvas
    \/ \E jump \in 1..MaxJump : Refresh(jump)

SpecControls == InitControls /\ [][NextControls]_vars

\* the points chart of a page whose user may log in and out, mounted once,
\* with the photos of its avatars loading or failing
InitPhotos ==
    /\ now = 0
    /\ NoRace
    /\ \E rows \in SurfaceRoundData : ChartUnmounted(TRUE, rows)
    /\ currentUser \in BOOLEAN
    /\ profiles = {}
    /\ disposerCalls = {}
    /\ pendingSaves = << >>
    /\ NoHistory

NextPhotos ==
    \/ chartMounts = 0 /\ createPointsProgressionGraph
    \/ \E entries \in EntryBatches : ChartObserverCallback(entries)
    \/ \E k \in 1..Len(chartLoops) : \E i \in 1..Len(chartLoops[k].avatars) :
          ImageLoaded(k, i)
    \/ \E k \in 1..Len(chartLoops) : \E i \in 1..Len(chartLoops[k].avatars) :
          ImageFailed(k, i)
    \/ \E user \in BOOLEAN : SetCurrentUser(user)
    \/ \E hasData \in BOOLEAN : \E photos \in SUBSET DriverNames :
          DriverProfilesListener(hasData, photos)
    \/ \E driver \in DriverNames : \E hasPhoto \in BOOLEAN : SubmitProfile(driver, hasPhoto)
    \/ \E k \in 1..Len(pendingSaves) : \E resolved \in BOOLEAN : SettleSave(k, resolved)
    \/ \E jump \in 1..MaxJump : Refresh(jump)

SpecPhotos == InitPhotos /\ [][NextPhotos]_vars

\* one mounted surface with its events, on a page that stays visible: the
\* clock advances and the browser keeps delivering the frames that were
\* requested
Frames == \E jump \in 1..MaxJump : Refresh(jump)

NextLive ==
    \/ \E b \in BOOLEAN : RaceObserverEntry(b)
    \/ RaceStartTimer
    \/ createPointsProgressionGraph
    \/ \E entries \in EntryBatches : ChartObserverCallback(entries)
    \/ Frames

SpecLive == InitSurface /\ [][NextLive]_vars /\ WF_vars(Frames)

\* ---------------------------------------------------------- race: claims
NDrivers == Len(drivers)
\* the elapsed time of the last frame of the running playback
lastElapsed == now - startTime
frameRan == progress # Null

\* C1: the finish ordinals of the carpets (finishOrder sorted by finishTime)
\* list the finishers in ascending order of totalTime, for every input of
\* 1 to 3 finishers in any order and every sequence of frame times.
C1_CarpetsAscendingTotalTime ==
    \A k \in 1..(Len(carpets) - 1) :
        drivers[carpets[k]].totalTime <= drivers[carpets[k + 1]].totalTime

\* C2: if totalTime(A) < totalTime(B) and B is marked finished, then A is
\* marked finished and A's finishTime is at most B's.
C2_FasterFinishesFirst ==
    \A a, b \in 1..NDrivers :
        (drivers[a].totalTime < drivers[b].totalTime /\ drivers[b].finished)
            => (drivers[a].finished /\ drivers[a].finishTime <= drivers[b].finishTime)

\* two finishers of different totalTime, finished on different frames
C2_Witness ==
    \E a, b \in 1..NDrivers :
        /\ drivers[a].totalTime < drivers[b].totalTime
        /\ drivers[a].finished /\ drivers[b].finished
        /\ drivers[a].finishTime < drivers[b].finishTime

\* C3: on a frame with progress = 1 the target lanes (0 = top) list the
\* finishers in ascending totalTime order, equal totals in input order.
C3_FinalLanesAreClassification ==
    (frameRan /\ progress = ProgDen) =>
        \A i, j \in 1..NDrivers :
            (\/ drivers[i].totalTime < drivers[j].totalTime
             \/ (drivers[i].totalTime = drivers[j].totalTime /\ i < j))
                => targetLane[i] < targetLane[j]

\* C4: the easing maps raw progress 0.8 to exactly 0.8 and raw progress 1.0
\* (elapsed = ANIMATION_DURATION) to exactly 1.0.
C4_EasingFixedPoints ==
    frameRan =>
        /\ (5 * lastElapsed = 4 * ANIMATION_DURATION => 5 * progress = 4 * ProgDen)
        /\ (lastElapsed = ANIMATION_DURATION => progress = ProgDen)

\* C5: the progress used by successive frames of one playback never
\* decreases (the clock is non-decreasing), also across the 0.8 breakpoint.
C5_ProgressNeverDecreases ==
    [][(progress # Null /\ progress' # Null /\ startTime' = startTime)
          => progress' >= progress]_vars

\* a frame past the 0.8 breakpoint of a playback that is still running
C5_Witness ==
    /\ frameRan
    /\ 5 * lastElapsed >= 4 * ANIMATION_DURATION
    /\ 5 * progress >= 4 * ProgDen
    /\ progress < ProgDen

\* C6: the loop stops scheduling at the first frame whose raw progress
\* elapsed / ANIMATION_DURATION is >= 1: after such a frame no frame
\* callback of the playback is pending.
C6_RaceStopsAtDuration ==
    (frameRan /\ lastElapsed >= ANIMATION_DURATION) => rafQueue = {}

\* C9: finishers that finish on the same frame get their ordinals in input
\* order; when all finishers have equal totalTime they all finish on the
\* progress = 1 frame and the carpets show 1..N in input order.
C9_SameFrameOrdinalsInInputOrder ==
    /\ \A a, b \in 1..Len(carpets) :
           (a < b /\ drivers[carpets[a]].finishTime = drivers[carpets[b]].finishTime)
               => carpets[a] < carpets[b]
    /\ (\A i, j \in 1..NDrivers : drivers[i].totalTime = drivers[j].totalTime)
           => /\ (frameRan /\ progress = ProgDen) => carpets = [i \in 1..NDrivers |-> i]
              /\ (frameRan /\ progress < ProgDen) => carpets = << >>

\* -------------------------------------------------------- points: claims
\* the round numbers present in the input, and their count
RoundSet == { parseIntOr0(roundData[k].Round) : k \in 1..Len(roundData) }
RoundCount == Cardinality(RoundSet)

\* the i lowest-numbered rounds present in the input
LowestRounds(i) == { r \in RoundSet : Cardinality({ q \in RoundSet : q < r }) < i }

\* the rows of a driver in the given rounds, by row number
RowsOf(driver, rounds) ==
    { k \in 1..Len(roundData) :
        /\ roundData[k].Driver = driver
        /\ parseIntOr0(roundData[k].Round) \in rounds }

RECURSIVE SumPoints(_)
SumPoints(rowNumbers) ==
    IF rowNumbers = {} THEN 0
    ELSE LET k == CHOOSE x \in rowNumbers : TRUE
         IN parseIntOr0(roundData[k].Total_Points) + SumPoints(rowNumbers \ {k})

\* the datasets of the chart on the page (none when there is no chart)
ChartDatasets == IF chartInstance = 0 THEN << >> ELSE charts[chartInstance].datasets

\* C7: for every input with at least one round there is one list per driver
\* of the input, of length roundCount + 1, and its element 0 is 0, also for
\* a driver who scored nothing in the first round.
C7_CumulativeStartsAtZero ==
    (chartMounts > 0 /\ RoundCount > 0) =>
        /\ { ChartDatasets[k].driverName : k \in 1..Len(ChartDatasets) }
               = { roundData[k].Driver : k \in 1..Len(roundData) }
        /\ \A k \in 1..Len(ChartDatasets) :
               /\ Len(ChartDatasets[k].data) = RoundCount + 1
               /\ ChartDatasets[k].data[1] = 0

\* a chart of two rounds with a driver who has no points in the first round
\* and some in the second
C7_Witness ==
    /\ RoundCount = 2
    /\ \E k \in 1..Len(ChartDatasets) :
           /\ ChartDatasets[k].data[2] = 0
           /\ ChartDatasets[k].data[3] > 0

\* C8: for every driver and every i in 1..roundCount, element i of the
\* driver's list is the sum of the driver's points over the i lowest
\* numbered rounds of the input; a round without a record of the driver
\* adds 0.
C8_CumulativeIsSumOfLowestRounds ==
    \A k \in 1..Len(ChartDatasets) :
        \A i \in 1..RoundCount :
            ChartDatasets[k].data[i + 1]
                = SumPoints(RowsOf(ChartDatasets[k].driverName, LowestRounds(i)))

\* X: R1 = 25, X: R2 = 18, Y: R1 = 10 drawn as X = [0, 25, 43], Y = [0, 10, 10]
C8_Witness ==
    /\ roundData = << [Driver |-> "X", Round |-> IntField(1), Total_Points |-> IntField(25)],
                      [Driver |-> "X", Round |-> IntField(2), Total_Points |-> IntField(18)],
                      [Driver |-> "Y", Round |-> IntField(1), Total_Points |-> IntField(10)] >>
    /\ Len(ChartDatasets) = 2
    /\ ChartDatasets[1].driverName = "X" /\ ChartDatasets[1].data = << 0, 25, 43 >>
    /\ ChartDatasets[2].driverName = "Y" /\ ChartDatasets[2].data = << 0, 10, 10 >>

\* ------------------------------------------------------- surface: claims
\* C10: on one mounted surface, intersecting entries with no replay click
\* before them start playback exactly once: the first one sets the fired
\* flag and starts (race: schedules) one playback, every later one starts
\* nothing.
C10_VisibilityStartsOnce ==
    /\ raceViewStarts <= 1
    /\ raceEntries >= 1 => hasAnimated
    /\ raceReplays = 0 => raceViewStarts = (IF raceEntries >= 1 THEN 1 ELSE 0)
    /\ chartInstance # 0 =>
          /\ chartViewStarts = (IF chartEntries >= 1 THEN 1 ELSE 0)
          /\ chartEntries >= 1 => chartAnimationTriggered

\* two intersecting entries delivered to the observer of a mounted surface
C10_Witness ==
    \/ raceReplays = 0 /\ raceEntries = 2 /\ raceViewStarts = 1
    \/ chartInstance # 0 /\ chartEntries = 2 /\ chartViewStarts = 1

\* ------------------------------------------------------ controls: claims
\* C11: a replay click always starts the playback from the beginning (all
\* cars reset, the clock of the playback at now, a frame scheduled) and sets
\* the fired flag; an intersecting entry delivered after a click starts and
\* schedules nothing.
C11_ReplayRestartsAndMarksFired ==
    [][/\ raceReplays' # raceReplays =>
            /\ hasAnimated'
            /\ isAnimating'
            /\ startTime' = now'
            /\ progress' = Null
            /\ animationId' \in rafQueue'
            /\ \A i \in 1..Len(drivers') :
                   /\ ~drivers'[i].finished
                   /\ drivers'[i].finishTime = Null
                   /\ drivers'[i].lanePosition = MiddleLane
       /\ (raceReplays >= 1 /\ raceEntries' # raceEntries) =>
            UNCHANGED <<startTimers, raceViewStarts, startTime, rafQueue, animationId,
                        drivers, isAnimating, progress>>
      ]_vars

\* an intersecting entry was delivered after a replay click and before any
\* other entry
C11_Witness ==
    /\ raceReplays >= 1
    /\ raceEntries >= 1
    /\ raceViewStarts = 0
    /\ hasAnimated

\* C12: once a visibility trigger has fired, its observer is disconnected,
\* for the race canvas and for the points chart.
C12_FiredObserverIsDisconnected ==
    /\ raceViewStarts > 0 => ~raceObserverConnected
    /\ chartViewStarts > 0 => ~chartObserver.connected

\* C13: at most one frame callback of the race surface is pending at any
\* time, under every interleaving of entries, start timers, replay clicks,
\* resizes and frames.
C13_OneFramePending == Cardinality(rafQueue) <= 1

\* a resize restarted a running playback: no replay, one start by the
\* trigger at time 0, and a playback that started later
C13_Witness ==
    /\ raceResizes >= 1
    /\ raceReplays = 0
    /\ startTime > 0
    /\ isAnimating
    /\ Cardinality(rafQueue) = 1

\* -------------------------------------------------------- engine: claims
\* C14: after a re-mount of the points chart no loop of the previous chart
\* is left running: at most one loop exists and it draws the current chart;
\* after a re-mount of the race surface no closure of an earlier set-up has
\* a frame callback pending or an observer connected.
C14_RemountCancelsPriorLoop ==
    /\ Len(chartLoops) <= 1
    /\ \A k \in 1..Len(chartLoops) : chartLoops[k].chart = chartInstance
    /\ \A k \in 1..Len(oldSurfaces) :
          /\ oldSurfaces[k].rafQueue = {}
          /\ ~oldSurfaces[k].observerConnected

\* C15: what a mount returns can be called any number of times without
\* throwing, and once it has been called nothing of the surface's playback
\* is pending: no frame callback, no loop, no scheduled start or set-up, of
\* the closure set up last or of an earlier one.
C15_DisposerStopsPlayback ==
    /\ "TypeError" \notin disposerCalls
    /\ disposerCalls # {} =>
          /\ rafQueue = {}
          /\ chartLoops = << >>
          /\ startTimers = 0
          /\ setupTimers = 0
          /\ \A k \in 1..Len(oldSurfaces) :
                /\ oldSurfaces[k].rafQueue = {}
                /\ oldSurfaces[k].startTimers = 0

\* C16: with empty input the engine does nothing: for zero rounds the graph
\* container is hidden and there is no chart, no observer and no loop; for
\* zero finishers every call of createRaceAnimation returns "" and nothing
\* is ever put in the document, set up, observed or scheduled.
C16_EmptyInputIsNoOp ==
    /\ (hasGraphContainer /\ roundData = << >>) =>
          /\ chartMounts > 0 => graphDisplay = "none"
          /\ charts = << >>
          /\ chartInstance = 0
          /\ ~chartObserver.connected
          /\ chartLoops = << >>
    /\ raceResults = << >> =>
          /\ raceHtml = ""
          /\ setupTimers = 0
          /\ drivers = << >>
          /\ ~raceObserverConnected
          /\ startTimers = 0
          /\ rafQueue = {}
          /\ raceCanvas = 0
          /\ closureCanvas = 0
          /\ oldSurfaces = << >>

\* both mounts were called with empty input
C16_Witness ==
    /\ hasGraphContainer
    /\ roundData = << >>
    /\ raceResults = << >>
    /\ chartMounts > 0
    /\ raceMounts > 0
    /\ graphDisplay = "none"

\* ------------------------------------------------- race frames: claims
\* the finishers with a positive totalTime
ValidDrivers == SelectSeq(drivers, LAMBDA d : d.totalTime > 0)

\* C17: a finisher with totalTime zero takes no part in slowestTime,
\* fastestS1, fastestS1S2 and min(totalTime): on every frame the display
\* progress and the ranking score of every other finisher are what they
\* would be without that finisher.
C17_ZeroTotalsLeftOutOfReductions ==
    frameRan =>
        \A i \in 1..NDrivers :
            drivers[i].totalTime > 0 =>
                /\ rankingScore(drivers, drivers[i], progress)
                       = rankingScore(ValidDrivers, drivers[i], progress)
                /\ driverProgress(drivers[i], progress, slowestTime(drivers))
                       = driverProgress(drivers[i], progress, slowestTime(ValidDrivers))

\* the least element of a non-empty set of numbers
Least(S) == CHOOSE x \in S : \A y \in S : x <= y

\* C19: on every frame the ranking score of a finisher is sector1 while
\* globalElapsed < fastestS1, sector1 + sector2 while fastestS1 <=
\* globalElapsed < fastestS1S2, and totalTime after that, with globalElapsed
\* = progress * min(totalTime) and the minima over all finishers; finishers
\* of equal totalTime are at the same x whatever their scores.
C19_RankingScoreByPhase ==
    frameRan =>
        LET fastestS1 == Least({ drivers[i].sector1 : i \in 1..NDrivers })
            fastestS1S2 == Least({ drivers[i].sector1 + drivers[i].sector2 :
                                   i \in 1..NDrivers })
            minTotal == Least({ drivers[i].totalTime : i \in 1..NDrivers })
        IN /\ { driverStates[k].idx : k \in 1..Len(driverStates) } = 1..NDrivers
           /\ \A k \in 1..Len(driverStates) :
                 LET d == drivers[driverStates[k].idx]
                 IN driverStates[k].rankingScore =
                       IF progress * minTotal < fastestS1 * ProgDen
                       THEN d.sector1
                       ELSE IF progress * minTotal < fastestS1S2 * ProgDen
                       THEN d.sector1 + d.sector2
                       ELSE d.totalTime
           /\ \A k, m \in 1..Len(driverStates) :
                 drivers[driverStates[k].idx].totalTime
                     = drivers[driverStates[m].idx].totalTime
                 => driverStates[k].xProgress = driverStates[m].xProgress

\* a frame of the second phase with two finishers of equal totalTime and
\* different scores
C19_Witness ==
    /\ frameRan
    /\ \E k, m \in 1..Len(driverStates) :
          /\ drivers[driverStates[k].idx].totalTime = drivers[driverStates[m].idx].totalTime
          /\ driverStates[k].rankingScore # driverStates[m].rankingScore
          /\ driverStates[k].rankingScore
                = drivers[driverStates[k].idx].sector1 + drivers[driverStates[k].idx].sector2
          /\ driverStates[k].rankingScore # drivers[driverStates[k].idx].sector1
          /\ driverStates[k].rankingScore # drivers[driverStates[k].idx].totalTime

\* C20: from one frame of a playback to the next, lanePosition changes by
\* at most the fixed step (0.01 lane), and is no further from the target
\* lane of the frame than it was before.
C20_LaneMovesByBoundedStep ==
    [][(progress' # Null /\ startTime' = startTime) =>
          \A i \in 1..NDrivers :
              /\ Abs(drivers'[i].lanePosition - drivers[i].lanePosition) * 100 <= LaneDen
              /\ Abs(drivers'[i].lanePosition - targetLane'[i] * LaneDen)
                    <= Abs(drivers[i].lanePosition - targetLane'[i] * LaneDen)
      ]_vars

\* a car on its way: it has left the middle lane and is not on its target
C20_Witness ==
    /\ frameRan
    /\ \E i \in 1..NDrivers :
          /\ drivers[i].lanePosition # MiddleLane
          /\ drivers[i].lanePosition # targetLane[i] * LaneDen

\* -------------------------------------------------------- photos: claims
\* C18: on every frame of the points progression a photo is drawn at the
\* tip of a line only if a user was logged in when the chart was mounted
\* and the driver's profile had a photo URL then; otherwise the coloured
\* disk with the driver number is drawn.
C18_PhotoOnlyIfAuthenticatedAtMount ==
    \A c \in 1..Len(charts) :
        \A i \in 1..Len(charts[c].tips) :
            /\ charts[c].tips[i] \in {"photo", "badge"}
            /\ charts[c].tips[i] = "photo" =>
                  /\ charts[c].userAtMount
                  /\ charts[c].datasets[i].driverName \in charts[c].profilesAtMount

\* frames drawn for a chart mounted with nobody logged in, a driver whose
\* profile had a photo URL then, and a user logged in since
C18_Witness ==
    \E c \in 1..Len(charts) :
        /\ ~charts[c].userAtMount
        /\ currentUser
        /\ \E i \in 1..Len(charts[c].tips) :
              /\ charts[c].datasets[i].driverName \in charts[c].profilesAtMount
              /\ charts[c].tips[i] = "badge"

\* ------------------------------------------------ race playback: claims
\* C21: every start of a race playback (start timer of the visibility
\* trigger, replay click, restart by a resize) leaves every finisher with
\* lanePosition 1, finished false and finishTime null until the first frame
\* of the new playback has run, and no finishTime seen in a playback is
\* older than the start of that playback.
C21_StartResetsEveryFinisher ==
    /\ (isAnimating /\ progress = Null) =>
          \A i \in 1..NDrivers :
              /\ ~drivers[i].finished
              /\ drivers[i].finishTime = Null
              /\ drivers[i].lanePosition = MiddleLane
    /\ \A i \in 1..NDrivers :
          drivers[i].finished => drivers[i].finishTime >= startTime

\* a playback started after a playback in which a car had finished, its
\* first frame not yet run
C21_Witness ==
    /\ isAnimating
    /\ progress = Null
    /\ carpets # << >>
    /\ raceReplays + raceResizes >= 1

\* the display progress min(progress / timeRatio, 1) of driver i on the last
\* frame, as the frame stored it in driverStates
xProgressOf(states, i) == states[IndexOf(states, i)].xProgress
\* the display progress is 1
AtFinish(x) == x.kind = "number" /\ x.num = x.den

\* C22: from one frame of a playback to the next, a finished flag that is
\* set stays set with its finishTime unchanged; a flag goes from false to
\* true exactly on a frame where the display progress of the finisher is 1
\* while it was below 1 on every earlier frame, and finishTime is then the
\* time of that frame.
C22_FinishedSetOnceAtFirstArrival ==
    [][(progress' # Null /\ startTime' = startTime /\ now' # now) =>
          \A i \in 1..NDrivers :
              /\ drivers[i].finished =>
                    /\ drivers'[i].finished
                    /\ drivers'[i].finishTime = drivers[i].finishTime
              /\ ~drivers[i].finished =>
                    /\ drivers'[i].finished = AtFinish(xProgressOf(driverStates', i))
                    /\ drivers'[i].finished => drivers'[i].finishTime = now'
                    /\ ~drivers'[i].finished => drivers'[i].finishTime = Null
                    /\ progress # Null => ~AtFinish(xProgressOf(driverStates, i))
      ]_vars

\* a frame has run after the frame on which a car finished, with another
\* car still on its way
C22_Witness ==
    /\ frameRan
    /\ \E i, j \in 1..NDrivers :
          /\ drivers[i].finished
          /\ drivers[i].finishTime < now
          /\ ~drivers[j].finished

\* ------------------------------------------------ points frames: claims
\* the charts a frame of the points progression has drawn on
DrawnCharts == { c \in 1..Len(charts) : charts[c].frame.progress # Null }
\* roundCount of chart c: its lists hold the origin and one value per round
RoundCountOf(c) == Len(charts[c].datasets[1].data) - 1

\* C23: on every frame of the points progression, with roundCount rounds and
\* progress p, roundIndex = floor(p * roundCount) lies in 0..roundCount and
\* frac = p * roundCount - roundIndex in [0, 1); the polyline runs through
\* the rounds 0..roundIndex; a segment towards round roundIndex + 1 is drawn
\* only when roundIndex < roundCount and frac > 0; no element of a list of
\* cumulative values beyond roundCount is read; and on the frame with p = 1
\* the marker is on the point of the last round.
C23_RoundIndexAndSegmentInRange ==
    \A c \in DrawnCharts :
        LET f == charts[c].frame
            n == RoundCountOf(c)
        IN /\ f.roundIndex \in 0..n
           /\ f.roundIndex * animationDuration <= f.progress * n
           /\ f.progress * n < (f.roundIndex + 1) * animationDuration
           /\ f.roundProgress = f.progress * n - f.roundIndex * animationDuration
           /\ f.roundProgress >= 0 /\ f.roundProgress < animationDuration
           /\ f.line = 0..f.roundIndex
           /\ f.segment => (f.roundIndex < n /\ f.roundProgress > 0)
           /\ f.dataReads \subseteq 0..n
           /\ f.progress = animationDuration =>
                 (f.tipIndex = n /\ f.tipProgress = 0 /\ ~f.segment)

\* a frame between two rounds: a segment is drawn from a round after the
\* origin towards the next one
C23_Witness ==
    \E c \in DrawnCharts :
        /\ charts[c].frame.segment
        /\ charts[c].frame.roundIndex >= 1
        /\ charts[c].frame.roundIndex < RoundCountOf(c)

\* C24: the tooltips of a chart are disabled and the width of its lines is 0
\* from the mount up to and including every frame with progress < 1; they
\* are enabled and 3 once the frame with progress = 1 has run, and after
\* that frame no loop of the chart is left to run.
C24_AffordancesRestoredAtCompletion ==
    \A c \in 1..Len(charts) :
        LET done == c \in DrawnCharts /\ charts[c].frame.progress = animationDuration
        IN /\ charts[c].tooltipEnabled = done
           /\ \A k \in 1..Len(charts[c].datasets) :
                 charts[c].datasets[k].borderWidth = (IF done THEN 3 ELSE 0)
           /\ done => LoopsOn(c) = {}

\* the frame with progress = 1 has run on a chart
C24_Witness ==
    \E c \in DrawnCharts :
        /\ charts[c].frame.progress = animationDuration
        /\ charts[c].tooltipEnabled
        /\ chartLoops = << >>

\* the load of the photo of avatar i of the loop has failed: the dataset has
\* a photo URL and onerror has cleared hasPhoto
LoadFailed(loop, i) ==
    charts[loop.chart].datasets[i].photoUrl /\ ~loop.avatars[i].hasPhoto

\* C25: every running points loop draws its frame on every refresh, whatever
\* the state of its images; on a frame the photo of a driver is drawn only
\* if its image has loaded and has not failed, and the numeric badge
\* otherwise; an image whose load has failed stays failed and never becomes
\* loaded.
C25_BadgeUntilLoadedAndAfterFailure ==
    [][/\ now' # now =>
            \A k \in 1..Len(chartLoops) :
                LET loop == chartLoops[k]
                    drawn == charts'[loop.chart]
                IN /\ drawn.frame.progress = Min(now' - loop.startTime, animationDuration)
                   /\ \A i \in 1..Len(loop.avatars) :
                         drawn.tips[i] =
                             IF loop.avatars[i].hasPhoto /\ loop.avatars[i].loaded
                             THEN "photo" ELSE "badge"
       /\ \A k \in 1..Len(chartLoops) : \A m \in 1..Len(chartLoops') :
             chartLoops'[m].chart = chartLoops[k].chart =>
                 \A i \in 1..Len(chartLoops[k].avatars) :
                     LoadFailed(chartLoops[k], i) =>
                         /\ ~chartLoops'[m].avatars[i].hasPhoto
                         /\ ~chartLoops'[m].avatars[i].loaded
      ]_vars

\* a frame drawn after the load of a photo had failed, with the badge at the
\* tip of that driver's line, and the loop still running
C25_Witness ==
    \E k \in 1..Len(chartLoops) :
        LET c == chartLoops[k].chart
        IN \E i \in 1..Len(charts[c].tips) :
              /\ charts[c].datasets[i].photoUrl
              /\ charts[c].frame.progress # Null
              /\ ~charts[c].frame.avatars[i].hasPhoto
              /\ charts[c].tips[i] = "badge"

\* --------------------------------------- race triggers and ends: claims
\* C26: once a replay click has started a playback, the start timer of a
\* visibility trigger that fired before the click does not reset it: when
\* the timer fires, the playback keeps its start time, its progress and the
\* state of its cars.
C26_StartTimerLeavesReplayAlone ==
    [][(raceReplays >= 1 /\ isAnimating /\ startTimers' < startTimers)
          => UNCHANGED <<startTime, progress, drivers>>]_vars

\* C27: on the frame with progress = 1, the last of a playback, the
\* lanePosition of every finisher is its target lane.
C27_FinalLanePositionsOnTarget ==
    (frameRan /\ progress = ProgDen) =>
        \A i \in 1..NDrivers : drivers[i].lanePosition = targetLane[i] * LaneDen

\* C28: on the frame with progress = 1 every finisher is marked finished and
\* the carpets are one per finisher, with the ordinals 1..N.
C28_AllFinishedWithCarpetsAtEnd ==
    (frameRan /\ progress = ProgDen) =>
        /\ \A i \in 1..NDrivers : drivers[i].finished
        /\ Len(carpets) = NDrivers
        /\ { carpets[k] : k \in 1..Len(carpets) } = 1..NDrivers

\* C29: between handlers isAnimating is true exactly when a frame callback
\* of the surface is pending; every start sets it, it is cleared only by
\* the frame with progress = 1, and a run of resizeCanvas while it is false
\* starts nothing.
C29_IsAnimatingIffFramePending ==
    /\ (isAnimating <=> rafQueue # {})
    /\ [][/\ isAnimating' <=> rafQueue' # {}
          /\ (raceReplays' # raceReplays \/ startTimers' < startTimers) => isAnimating'
          /\ (raceResizes' # raceResizes /\ isAnimating) =>
                (isAnimating' /\ progress' = Null /\ startTime' = now')
          /\ (raceResizes' # raceResizes /\ ~isAnimating) =>
                UNCHANGED <<isAnimating, rafQueue, animationId, startTime, drivers, progress>>
          /\ (isAnimating /\ ~isAnimating') => (now' # now /\ progress' = ProgDen)
         ]_vars

\* resizeCanvas has run on the idle surface: no playback was ever started
C29_Witness ==
    /\ raceResizes >= 1
    /\ ~hasAnimated
    /\ ~isAnimating
    /\ rafQueue = {}

\* ------------------------------------------------------ liveness: claims
\* a loop of the race surface or of the points chart has a frame pending
LoopRunning == rafQueue # {} \/ chartLoops # << >>

\* C30: every started loop stops: while the clock advances and the frames
\* that were requested are delivered, a running race or points loop reaches
\* its last frame, after which no frame callback is pending (the starts,
\* replay clicks and resizes of a behaviour are finitely many).
C30_EveryLoopStops == LoopRunning ~> ~LoopRunning

\* a playback has run to its last frame and left nothing pending
C30_Witness ==
    /\ ~LoopRunning
    /\ \/ frameRan /\ progress = ProgDen
       \/ \E c \in DrawnCharts : charts[c].frame.progress = animationDuration

====
